---- MODULE Spec2Model ----
(***************************************************************************)
(* Kreuzberg batch processor: the cycle driver of scripts/main.ts (second  *)
(* definition, lines 330-593), the job protocol of scripts/processor.ts,   *)
(* the ledger of scripts/config.ts (hash management, lines 100-245) and    *)
(* the URL fetch chain of scripts/fetcher.ts.                              *)
(*                                                                         *)
(* JavaScript runs one callback at a time: every action below is the code  *)
(* that runs between two awaits.  The file system, the extraction CLI, the *)
(* fetch layers and the signals are the environment.                       *)
(***************************************************************************)
EXTENDS Integers, Sequences, FiniteSets, TLC

(* ------------------------------ bounds -------------------------------- *)
MaxCycles == 2
MaxFsEvents == 1
MaxRetriesCfg == 2
MaxConcurrency == 2
MaxClock == 1

(* ------------------------------ data ---------------------------------- *)
\* Content ids: 0 is "no such file"; 1, 2 are two byte contents of a
\* document; 10.. are texts, given line by line by TextOf.
Absent == 0
DocContents == {1, 2}

Comment == [kind |-> "comment", tok |-> "", name |-> ""]
Blank == [kind |-> "blank", tok |-> "", name |-> ""]
Entry(t, n) == [kind |-> "entry", tok |-> t, name |-> n]

\* new URL(tok) succeeds for these tokens; "ftp1" parses but is not http(s).
ParsesAsUrl(tok) == tok \in {"u1", "u2", "ftp1"}
IsHttp(tok) == tok \in {"u1", "u2"}

TextOf(c) ==
  CASE c = 10 -> <<Comment, Entry("u1", "x"), Entry("u2", "")>>
    [] c = 11 -> <<Entry("u1", "x"), Blank>>
    [] c = 12 -> <<Comment, Entry("u1", "x"), Entry("plain", "")>>
    [] c = 13 -> <<Comment, Blank>>
    [] c = 14 -> <<Entry("ftp1", ""), Entry("u2", "y")>>
    [] OTHER -> <<>>
\* The texts a list file is edited to, and all the texts it may start as.
TextContents == {10, 11, 12}
Texts == TextContents \cup {13, 14}

IsTxt(p) == p \in {"urls.txt"}
ContentsOf(p) == IF IsTxt(p) THEN TextContents ELSE DocContents

\* The order in which readdirSync lists the input directory.
DirOrder == <<"a.docx", "a.pdf", "b.pdf", "c.pdf", "urls.txt">>
AllPaths == {DirOrder[i] : i \in 1..Len(DirOrder)}

UrlListMarker == "url-list-processed"

VARIABLES
  env,             \* process.env: the variables read by loadConfig
  now,             \* the wall clock, in seconds
  loaded,          \* history: the ledger file main() found and what
                   \* loadProcessedState made of it
  config,          \* the Config record of loadConfig
  fetcher,         \* number of layers of the fetchUrl definition in use (3: l.157, 2: l.343)
  fs,              \* input tree: path -> content id
  state,           \* the in-memory ledger, state.files: key -> entry
  errorDir,        \* error tree: path -> the quarantined copy and its log
  disk,            \* the ledger file: missing, bytes that are no JSON, or a
                   \* JSON document with its version and files map
  isShuttingDown,  \* main.ts:330
  pc,              \* where main()'s control is
  exitCode,        \* -1 while the process runs
  cycle,           \* cycles started
  items,           \* findUrlFiles: the top-level .txt files of the directory
  urlFiles, ui,    \* processUrls: the URL-list files found, loop index
  urls, ue,        \* processUrlFile: the parsed entries, loop index
  layer,           \* fetchUrl: the layer whose request is in flight
  browsers,        \* fetchWithPlaywright: the browsers launched and not closed
  entries, ei,     \* processFiles: the scan result, loop index
  stage,           \* processFiles: "detect" or "hash" for entries[ei]
  newFiles,        \* processFiles: the files queued
  jobs,            \* every live ProcessingJob: the current cycle's, and tasks
                   \* of a batch whose Promise.all rejected
  bi,              \* processFiles: the batch loop's i (position of the batch in jobs)
  batch,           \* indexes of jobs whose Promise.all main() awaits
  \* ---- history ----
  fsEvents,        \* changes made to the input tree
  completedKeys,   \* keys whose extraction has succeeded
  decisions,       \* the dedup decisions taken by the last step that took any
  extractions,     \* extractDocument invocations made by the current cycle:
                   \* by its URL loop and by the jobs it created
  fetchTrace,      \* the layers fetchUrl attempted for the URL at hand, in order
  fetchResult,     \* the FetchResult fetchUrl returned last
  hist             \* flags about the run: the tree has changed; a job ended
                   \* failed in this cycle (Now) or the one before (Prev);
                   \* the cycle threw; the cycle follows one that threw

vars == <<env, loaded, now, errorDir, config, fetcher, fs, state, disk, isShuttingDown, pc, exitCode, cycle,
          urlFiles, ui, urls, ue, layer, browsers, entries, ei, stage, newFiles, jobs, bi,
          batch, fsEvents, completedKeys, decisions, extractions, items,
          fetchTrace, fetchResult, hist>>

bootVars == <<env, loaded, now>>
urlVars == <<items, urlFiles, ui, urls, ue, layer, browsers, fetchTrace, fetchResult>>
scanVars == <<entries, ei, stage, newFiles>>

Min(a, b) == IF a < b THEN a ELSE b

(* ------------------------------ ledger -------------------------------- *)
\* config.ts:115-121.  The digest of the bytes; distinct contents have
\* distinct digests.  Rejects when the file is gone.
calculateFileHash(p) == fs[p]

\* config.ts:126-130
UrlCode(u) == CASE u = "u1" -> 101 [] u = "u2" -> 102 [] u = "ftp1" -> 103 [] OTHER -> 199
calculateStringHash(u) == UrlCode(u)

\* A ledger lookup that compares no fingerprint.
isFileProcessedAnyHash(st, key, currentHash) == key \in DOMAIN st

\* config.ts:186-194
isFileProcessed(st, key, currentHash) ==
  IF key \notin DOMAIN st THEN FALSE ELSE st[key].hash = currentHash

\* A ledger write that stores no fingerprint.
markFileProcessedNoHash(st, key, h, out, r) ==
  [k \in DOMAIN st \cup {key} |->
     IF k = key THEN [hash |-> Absent, outputPath |-> out, retries |-> r] ELSE st[k]]

\* config.ts:199-212
markFileProcessed(st, key, h, out, r) ==
  [k \in DOMAIN st \cup {key} |->
     IF k = key THEN [hash |-> h, outputPath |-> out, retries |-> r] ELSE st[k]]

\* processor.ts:47: basename(relativePath, extname(relativePath)).
BaseName(p) ==
  CASE p = "a.pdf" -> "a" [] p = "a.docx" -> "a" [] p = "b.pdf" -> "b"
    [] p = "c.pdf" -> "c" [] p = "urls.txt" -> "urls" [] p = "u1.html" -> "u1"
    [] p = "u2.html" -> "u2" [] OTHER -> "x"

\* processor.ts:51-54: new Date() as YYYYMMDD_HHMMSS, the clock's second.
Timestamp(t) == ToString(t)

\* processor.ts:50-58
Stamped(base, stamp, t) == IF stamp THEN base \o "_" \o Timestamp(t) ELSE base

\* processor.ts:39-69: the input's base name, the time of the call when
\* ADD_TIMESTAMP is set, and the .md extension.
generateOutputPath(p, t) == Stamped(BaseName(p), config.addTimestamp, t) \o ".md"

\* fetcher.ts:441-462: the caller's name with .html, else a name derived
\* from the URL's path.
urlToFilename(u, customName) ==
  IF customName # "" THEN "x.html"
  ELSE CASE u = "u1" -> "u1.html" [] u = "u2" -> "u2.html" [] OTHER -> "page.html"

\* config.ts:110
STATE_VERSION == "1.0.0"
EmptyLedger == [k \in {} |-> 0]

\* What the ledger's path can hold.
MissingFile == [kind |-> "missing", version |-> "", files |-> EmptyLedger]
GarbageFile == [kind |-> "garbage", version |-> "", files |-> EmptyLedger]
NullFile == [kind |-> "null", version |-> "", files |-> EmptyLedger]
JsonFile(v, fl) == [kind |-> "json", version |-> v, files |-> fl]

\* config.ts:146: JSON.parse throws on bytes that are no JSON; "null" parses.
ParsesAsJson(file) == file.kind \in {"json", "null"}

\* A load that accepts any version.
VersionAlwaysMatches(v) == FALSE

\* config.ts:149
VersionMismatch(v) == v # STATE_VERSION

\* config.ts:135-167.  The try/catch of l.144-166 turns a parse error, and the
\* TypeError of reading .version of null, into a fresh ledger.
loadProcessedState(file) ==
  LET fresh == [version |-> STATE_VERSION, files |-> EmptyLedger]
  IN IF file.kind = "missing" THEN fresh
     ELSE IF ~ParsesAsJson(file) THEN fresh
     ELSE IF file.kind = "null" THEN fresh
     ELSE IF VersionMismatch(file.version) THEN fresh
     ELSE [version |-> file.version, files |-> file.files]

\* config.ts:172-181: writeFileSync of the whole ledger onto the live file.
\* The write either completes, or fails before the file is opened (the file
\* keeps what it held), or fails after the file was truncated (disk full,
\* I/O error: the file is left cut short); the error is logged and swallowed.
saveProcessedState(how) ==
  CASE how = "written" -> JsonFile(STATE_VERSION, state)
    [] how = "unchanged" -> disk
    [] how = "torn" -> GarbageFile

(* ---------------------------- configuration --------------------------- *)
\* The value of an environment variable: not set; a decimal integer; a
\* string that starts with a decimal integer and goes on ("2x", "0.5"); any
\* other string.
Undef == [kind |-> "undefined", n |-> 0, s |-> ""]
Digits(k) == [kind |-> "int", n |-> k, s |-> ""]
Prefixed(k) == [kind |-> "prefixed", n |-> k, s |-> ""]
Text(str) == [kind |-> "text", n |-> 0, s |-> str]

\* config.ts:21: Number.parseInt(value, 10) reads the leading integer, NaN
\* when there is none.
NumberParseInt(value) ==
  [nan |-> value.kind \notin {"int", "prefixed"}, n |-> value.n]

\* config.ts:19-23
parseInt(value, defaultValue) ==
  IF value.kind = "undefined" THEN defaultValue
  ELSE LET parsed == NumberParseInt(value)
       IN IF parsed.nan THEN defaultValue ELSE parsed.n

toLowerCase(str) == CASE str = "TRUE" -> "true" [] str = "True" -> "true" [] OTHER -> str

\* config.ts:11-14
parseBool(value, defaultValue) ==
  IF value.kind = "undefined" THEN defaultValue
  ELSE toLowerCase(value.s) = "true" \/ value.s = "1"

\* config.ts:28-77, the fields the program's control depends on.
loadConfig(e) ==
  [watchInterval |-> parseInt(e.WATCH_INTERVAL, 30),
   concurrentJobs |-> parseInt(e.CONCURRENT_JOBS, 4),
   skipExisting |-> parseBool(e.SKIP_EXISTING, TRUE),
   fetchUrls |-> parseBool(e.FETCH_URLS, TRUE),
   playwrightEnabled |-> parseBool(e.PLAYWRIGHT_ENABLED, TRUE),
   browserlessEnabled |-> parseBool(e.BROWSERLESS_ENABLED, TRUE),
   maxRetries |-> parseInt(e.MAX_RETRIES, 3),
   addTimestamp |-> parseBool(e.ADD_TIMESTAMP, TRUE)]

\* A validation that refuses MAX_RETRIES=0.
RetriesBelowOne(n) == n < 1

\* config.ts:93
RetriesNegative(n) == n < 0

\* config.ts:82-98
validateConfig(c) ==
  {m \in {"WATCH_INTERVAL", "CONCURRENT_JOBS", "MAX_RETRIES"} :
     \/ m = "WATCH_INTERVAL" /\ c.watchInterval < 1
     \/ m = "CONCURRENT_JOBS" /\ c.concurrentJobs < 1
     \/ m = "MAX_RETRIES" /\ RetriesNegative(c.maxRetries)}

(* ------------------------- environment -------------------------------- *)
Alive == exitCode = -1

\* Whether the environment may still misbehave (a bound of the model).
MayFail == fsEvents < MaxFsEvents
SaveOutcomes == IF MayFail THEN {"written", "unchanged", "torn"} ELSE {"written"}

ModifyFile(p, c) ==
  /\ Alive /\ MayFail
  /\ fs[p] # Absent /\ c \in ContentsOf(p) /\ c # fs[p]
  /\ fs' = [fs EXCEPT ![p] = c]
  /\ fsEvents' = fsEvents + 1
  /\ hist' = [hist EXCEPT !.changed = TRUE, !.failedAt[p] = Absent]
  /\ UNCHANGED <<bootVars, errorDir, config, fetcher, state, disk, isShuttingDown, pc, exitCode, cycle,
                 urlVars, scanVars, jobs, bi, batch, completedKeys, decisions,
                 extractions>>

DeleteFile(p) ==
  /\ Alive /\ MayFail
  /\ fs[p] # Absent
  /\ fs' = [fs EXCEPT ![p] = Absent]
  /\ fsEvents' = fsEvents + 1
  /\ hist' = [hist EXCEPT !.changed = TRUE, !.failedAt[p] = Absent]
  /\ UNCHANGED <<bootVars, errorDir, config, fetcher, state, disk, isShuttingDown, pc, exitCode, cycle,
                 urlVars, scanVars, jobs, bi, batch, completedKeys, decisions,
                 extractions>>

(* ------------------------------ jobs ---------------------------------- *)
\* watcher.ts:95-102.  `born` stands for the creation time held by the id;
\* the fields from `pc` on are the task's position and its history.
createJobs(files) ==
  [k \in 1..Len(files) |->
     [path |-> files[k], status |-> "pending", retries |-> 0, pc |-> "new",
      born |-> cycle, hash |-> Absent, attempt |-> 0, attempts |-> 0,
      sleeps |-> 0, copies |-> 0, logs |-> 0, out |-> ""]]

Running(j) == j.pc \in {"hash", "extract", "sleep"}
\* The tasks that outlive processFiles: those of a batch whose Promise.all
\* rejected go on running, nothing cancels them.
live(js) == SelectSeq(js, Running)

\* processor.ts:135-162: copyFileSync and the log, inside one try; when the
\* copy throws (the input is gone) nothing is written and the error is logged.
moveToError(job) ==
  IF fs[job.path] # Absent
  THEN [job EXCEPT !.copies = @ + 1, !.logs = @ + 1]
  ELSE job

\* A retry loop that sleeps after every failed attempt, the last included.
SleepsAlways(attempt) == attempt <= config.maxRetries

\* A retry loop that runs one attempt too many.
HasAttemptOneMore(attempt) == attempt <= config.maxRetries + 1

\* processor.ts:183 and 197: the loop's condition, the retry's condition.
HasAttempt(attempt) == attempt <= config.maxRetries
SleepsAfter(attempt) == attempt < config.maxRetries

\* A failure that counts one more retry.
jobFailedCountsOn(job) ==
  moveToError([job EXCEPT !.status = "failed", !.pc = "done", !.retries = @ + 1])

\* processor.ts:203-211
jobFailed(job) == moveToError([job EXCEPT !.status = "failed", !.pc = "done"])

\* processor.ts:171-186: processJob up to its first await; `out` is the
\* outputPath every attempt of the job writes to.
processJobStart(job, h) ==
  LET j == [job EXCEPT !.hash = h, !.status = "processing",
                       !.out = generateOutputPath(job.path, now)]
  IN IF HasAttempt(1)
     THEN [j EXCEPT !.pc = "extract", !.attempt = 1, !.attempts = @ + 1]
     ELSE jobFailed(j)

\* A loop that marks the job completed on success and goes on all the same.
processJobResultGoesOn(job, ok) ==
  LET j == [job EXCEPT !.retries = job.attempt,
                       !.status = IF ok THEN "completed" ELSE @]
  IN IF SleepsAfter(job.attempt)
     THEN [j EXCEPT !.pc = "sleep", !.sleeps = @ + 1]
     ELSE IF HasAttempt(job.attempt + 1)
          THEN [j EXCEPT !.pc = "extract", !.attempt = @ + 1, !.attempts = @ + 1]
          ELSE jobFailed(j)

\* A loop that never writes the attempt to the job's retry counter.
processJobResultNoCount(job, ok) ==
  IF ok
  THEN [job EXCEPT !.status = "completed", !.pc = "done"]
  ELSE IF SleepsAfter(job.attempt)
       THEN [job EXCEPT !.pc = "sleep", !.sleeps = @ + 1]
       ELSE IF HasAttempt(job.attempt + 1)
            THEN [job EXCEPT !.pc = "extract", !.attempt = @ + 1, !.attempts = @ + 1]
            ELSE jobFailed(job)

\* processor.ts:186-211: processJob from the return of extractDocument to its
\* next await or its return.
processJobResult(job, ok) ==
  IF ok
  THEN [job EXCEPT !.status = "completed", !.pc = "done"]
  ELSE LET j == [job EXCEPT !.retries = job.attempt]
       IN IF SleepsAfter(job.attempt)
          THEN [j EXCEPT !.pc = "sleep", !.sleeps = @ + 1]
          ELSE IF HasAttempt(job.attempt + 1)
               THEN [j EXCEPT !.pc = "extract", !.attempt = @ + 1, !.attempts = @ + 1]
               ELSE jobFailed(j)

\* processor.ts:199 then 183-186: Bun.sleep returns, the next attempt starts.
processJobRetry(job) ==
  IF HasAttempt(job.attempt + 1)
  THEN [job EXCEPT !.pc = "extract", !.attempt = @ + 1, !.attempts = @ + 1]
  ELSE jobFailed(job)

\* A batch task that records its job whatever its status.
TaskMarksAlways(job) == TRUE

\* A batch task that records the jobs that ended failed as well.
TaskMarksEnded(job) == job.status \in {"completed", "failed"}

\* main.ts:503: the task records the job in the ledger.
TaskMarks(job) == job.status = "completed"

\* main.ts:493-501: the batch loop's head at position i of js: the batch's
\* tasks all start, each up to its await of calculateFileHash.
batchLoop(js, i) ==
  LET hi == Min(i + config.concurrentJobs, Len(js))
      slice == (i + 1)..hi
  IN IF i >= Len(js) \/ isShuttingDown
     THEN [pc |-> "sleep", jobs |-> live(js), bi |-> 0, batch |-> {}]
     ELSE [pc |-> "awaitBatch",
           jobs |-> [k \in DOMAIN js |->
                       IF k \in slice THEN [js[k] EXCEPT !.pc = "hash"] ELSE js[k]],
           bi |-> i, batch |-> slice]

(* --------------------------- URL-list text ---------------------------- *)
NonBlank(c) == SelectSeq(TextOf(c), LAMBDA l : l.kind # "blank")

\* A detection that counts every line that parses as a URL, whatever its
\* protocol.
detectAnyProtocol(c) ==
  LET lines == NonBlank(c)
      nonComment == SelectSeq(lines, LAMBDA l : l.kind # "comment")
      urlLines == SelectSeq(nonComment, LAMBDA l : ParsesAsUrl(l.tok))
  IN /\ c # Absent
     /\ Len(nonComment) > 0
     /\ Len(urlLines) = Len(nonComment)

\* fetcher.ts:404-439
detectUrlsInTextFile(c) ==
  LET lines == NonBlank(c)
      nonComment == SelectSeq(lines, LAMBDA l : l.kind # "comment")
      urlLines == SelectSeq(nonComment, LAMBDA l : ParsesAsUrl(l.tok) /\ IsHttp(l.tok))
  IN /\ c # Absent
     /\ Len(lines) > 0
     /\ Len(nonComment) > 0
     /\ Len(urlLines) = Len(nonComment)

\* A parser that keeps the lines whose first token is no URL.
parseUrlFileKeepsAll(c) ==
  IF c = Absent THEN <<>>
  ELSE LET ok == SelectSeq(NonBlank(c), LAMBDA l : l.kind # "comment")
       IN [k \in 1..Len(ok) |-> [url |-> ok[k].tok, filename |-> ok[k].name]]

\* fetcher.ts:362-398
parseUrlFile(c) ==
  IF c = Absent THEN <<>>
  ELSE LET ok == SelectSeq(NonBlank(c),
                           LAMBDA l : l.kind # "comment" /\ ParsesAsUrl(l.tok))
       IN [k \in 1..Len(ok) |-> [url |-> ok[k].tok, filename |-> ok[k].name]]

(* ------------------------- the cycle driver --------------------------- *)
\* watcher.ts:72-75 over scanDirectory: the supported files that exist.
getAllInputFiles == SelectSeq(DirOrder, LAMBDA p : fs[p] # Absent)

FirstStage(p) == IF IsTxt(p) THEN "detect" ELSE "hash"

\* A cycle whose error ends the process.
runCycleRethrows == [pc |-> "exited", exitCode |-> 1]

\* main.ts:532-534: the catch of runCycle logs the error; main() goes on to
\* its Bun.sleep.
runCycleCatch == [pc |-> "sleep", exitCode |-> -1]

\* main.ts:459-473: processFiles, from its call to its first await.
processFilesStart ==
  LET es == getAllInputFiles
  IN IF es = <<>>
     THEN [pc |-> "sleep", entries |-> <<>>, ei |-> 0, stage |-> "none"]
     ELSE [pc |-> "scan", entries |-> es, ei |-> 1, stage |-> FirstStage(es[1])]

EnterProcessFiles ==
  LET r == processFilesStart
  IN /\ pc' = r.pc /\ entries' = r.entries /\ ei' = r.ei /\ stage' = r.stage
     /\ newFiles' = <<>>

\* main.ts:465-501: the scan loop goes to its next entry; after the last one
\* the queued files become jobs and the first batch starts.
ScanGoOn(nf) ==
  IF ei + 1 <= Len(entries)
  THEN /\ pc' = "scan" /\ ei' = ei + 1 /\ stage' = FirstStage(entries[ei + 1])
       /\ newFiles' = nf /\ entries' = entries
       /\ UNCHANGED <<jobs, bi, batch>>
  ELSE /\ entries' = <<>> /\ ei' = 0 /\ stage' = "none" /\ newFiles' = <<>>
       /\ IF nf = <<>>
          THEN /\ pc' = "sleep" /\ UNCHANGED <<jobs, bi, batch>>
          ELSE LET kept == live(jobs)
                   r == batchLoop(kept \o createJobs(nf), Len(kept))
               IN /\ pc' = r.pc /\ jobs' = r.jobs /\ bi' = r.bi /\ batch' = r.batch

\* main.ts:466-471
ScanDetect ==
  /\ Alive /\ pc = "scan" /\ stage = "detect"
  /\ IF detectUrlsInTextFile(fs[entries[ei]])
     THEN ScanGoOn(newFiles)
     ELSE /\ stage' = "hash"
          /\ UNCHANGED <<pc, entries, ei, newFiles, jobs, bi, batch>>
  /\ hist' = [hist EXCEPT !.detected = [c |-> fs[entries[ei]],
                                         r |-> detectUrlsInTextFile(fs[entries[ei]])]]
  /\ UNCHANGED <<bootVars, errorDir, config, fetcher, fs, state, disk, isShuttingDown, exitCode, cycle,
                 urlVars, fsEvents, completedKeys, decisions, extractions>>

\* main.ts:473-480
ScanDecide ==
  /\ Alive /\ pc = "scan" /\ stage = "hash"
  /\ fs[entries[ei]] # Absent
  /\ LET p == entries[ei]
         h == calculateFileHash(p)
         skip == config.skipExisting /\ isFileProcessed(state, p, h)
     IN /\ decisions' = <<[kind |-> "file", key |-> p, fresh |-> h,
                        had |-> p \in DOMAIN state,
                        same |-> (p \in DOMAIN state /\ state[p].hash = h),
                        skipped |-> skip]>>
        /\ ScanGoOn(IF skip THEN newFiles ELSE Append(newFiles, p))
  /\ UNCHANGED <<bootVars, errorDir, config, fetcher, fs, state, disk, isShuttingDown, exitCode, cycle,
                 urlVars, fsEvents, completedKeys, extractions, hist>>

\* main.ts:473: calculateFileHash rejects, processFiles throws, runCycle catches.
ScanThrows ==
  /\ Alive /\ pc = "scan" /\ stage = "hash"
  /\ fs[entries[ei]] = Absent
  /\ pc' = runCycleCatch.pc /\ exitCode' = runCycleCatch.exitCode
  /\ entries' = <<>> /\ ei' = 0 /\ stage' = "none" /\ newFiles' = <<>>
  /\ hist' = [hist EXCEPT !.threw = TRUE]
  /\ UNCHANGED <<bootVars, errorDir, config, fetcher, fs, state, disk, isShuttingDown, cycle, urlVars,
                 jobs, bi, batch, fsEvents, completedKeys, decisions,
                 extractions>>

(* ------------------------- the batch's tasks -------------------------- *)
\* A task that records a failed job as a fresh entry without a fingerprint.
taskAfterFailedToo(st, j) ==
  IF j.pc = "done"
  THEN markFileProcessed(st, j.path, IF j.status = "completed" THEN j.hash ELSE Absent,
                         generateOutputPath(j.path, now), j.retries)
  ELSE st

\* main.ts:501-511: what the task does to the ledger once processJob returned.
taskAfter(st, j) ==
  IF j.pc = "done" /\ TaskMarks(j)
  THEN markFileProcessed(st, j.path, j.hash, generateOutputPath(j.path, now), j.retries)
  ELSE st

Started(old, new) == new.attempts - old.attempts

\* A quarantine that writes the copy and no log beside it.
quarantineNoLog(tree, job) ==
  [tree EXCEPT ![job.path] = [content |-> fs[job.path], log |-> FALSE]]

\* processor.ts:141-156: relative(inputDir, inputPath) joined to errorDir;
\* copyFileSync overwrites an older copy, the log goes to <copy>.error.txt.
quarantine(tree, job) ==
  [tree EXCEPT ![job.path] = [content |-> fs[job.path], log |-> TRUE]]

TaskUpdate(k, j) ==
  /\ jobs' = [jobs EXCEPT ![k] = j]
  /\ state' = taskAfter(state, j)
  /\ errorDir' = IF j.copies > jobs[k].copies THEN quarantine(errorDir, j)
                 ELSE errorDir
  /\ extractions' = IF j.born = cycle THEN extractions + Started(jobs[k], j)
                     ELSE extractions
  /\ hist' = [hist EXCEPT !.failedNow = @ \/ j.status = "failed",
                          !.failedAt[j.path] = IF j.status = "failed" THEN j.hash ELSE @,
                          !.okAt[j.path] = IF j.status = "completed" THEN @ \cup {j.hash} ELSE @]

\* main.ts:500-501
TaskHash(k) ==
  /\ Alive /\ jobs[k].pc = "hash"
  /\ fs[jobs[k].path] # Absent
  /\ TaskUpdate(k, processJobStart(jobs[k], calculateFileHash(jobs[k].path)))
  /\ UNCHANGED <<bootVars, config, fetcher, fs, disk, isShuttingDown, pc, exitCode, cycle,
                 urlVars, scanVars, bi, batch, fsEvents, completedKeys,
                 decisions>>

\* main.ts:500: the task rejects.  The first rejection rejects the batch's
\* Promise.all: processFiles throws at line 498 while the batch's other tasks
\* go on; the rejection of a task nobody awaits any more is dropped.
TaskHashRejects(k) ==
  /\ Alive /\ jobs[k].pc = "hash"
  /\ fs[jobs[k].path] = Absent
  /\ IF k \in batch
     THEN /\ jobs' = live([jobs EXCEPT ![k].pc = "rejected"])
          /\ batch' = {} /\ bi' = 0
          /\ pc' = runCycleCatch.pc /\ exitCode' = runCycleCatch.exitCode
          /\ hist' = [hist EXCEPT !.threw = TRUE]
     ELSE /\ jobs' = [jobs EXCEPT ![k].pc = "rejected"]
          /\ UNCHANGED <<batch, bi, pc, exitCode, hist>>
  /\ UNCHANGED <<bootVars, errorDir, config, fetcher, fs, state, disk, isShuttingDown, cycle, urlVars,
                 scanVars, fsEvents, completedKeys, decisions, extractions>>

\* processor.ts:186-211 and main.ts:503-511.  The CLI cannot succeed on a
\* file that is gone.
TaskExtract(k, ok) ==
  /\ Alive /\ jobs[k].pc = "extract"
  /\ ok => fs[jobs[k].path] # Absent
  /\ TaskUpdate(k, processJobResult(jobs[k], ok))
  /\ completedKeys' = IF ok THEN completedKeys \cup {jobs[k].path} ELSE completedKeys
  /\ UNCHANGED <<bootVars, config, fetcher, fs, disk, isShuttingDown, pc, exitCode, cycle,
                 urlVars, scanVars, bi, batch, fsEvents, decisions>>

\* processor.ts:199
TaskSleepDone(k) ==
  /\ Alive /\ jobs[k].pc = "sleep"
  /\ TaskUpdate(k, processJobRetry(jobs[k]))
  /\ UNCHANGED <<bootVars, config, fetcher, fs, disk, isShuttingDown, pc, exitCode, cycle,
                 urlVars, scanVars, bi, batch, fsEvents, completedKeys,
                 decisions>>

\* A save whose error leaves saveProcessedState.
saveRethrows == "thrown"

\* config.ts:178-180: the catch of saveProcessedState logs the error.
saveCatch == "logged"

\* main.ts:498-517: Promise.all resolves, the ledger is saved, the loop goes
\* to its next batch or processFiles returns.  An error that left
\* saveProcessedState would leave processFiles and end in runCycle's catch.
AwaitBatch(how) ==
  /\ Alive /\ pc = "awaitBatch"
  /\ \A k \in batch : jobs[k].pc = "done"
  /\ disk' = saveProcessedState(how)
  /\ fsEvents' = IF how = "written" THEN fsEvents ELSE fsEvents + 1
  /\ IF how # "written" /\ saveCatch = "thrown"
     THEN /\ jobs' = live(jobs) /\ batch' = {} /\ bi' = 0
          /\ pc' = runCycleCatch.pc /\ exitCode' = runCycleCatch.exitCode
          /\ hist' = [hist EXCEPT !.threw = TRUE, !.saveFailed = TRUE]
     ELSE /\ LET r == batchLoop(jobs, bi + config.concurrentJobs)
             IN /\ pc' = r.pc /\ jobs' = r.jobs /\ bi' = r.bi /\ batch' = r.batch
          /\ hist' = [hist EXCEPT !.saveFailed = @ \/ how # "written"]
          /\ UNCHANGED exitCode
  /\ UNCHANGED <<bootVars, errorDir, config, fetcher, fs, state, isShuttingDown, cycle,
                 urlVars, scanVars, completedKeys, decisions, extractions>>

(* ----------------------------- shutdown ------------------------------- *)
\* A handler that sets the flag and saves but leaves the process running.
shutdownNoExit(how) ==
  /\ Alive /\ ~isShuttingDown /\ pc # "boot"
  /\ isShuttingDown' = TRUE
  /\ disk' = saveProcessedState(how)
  /\ fsEvents' = IF how = "written" THEN fsEvents ELSE fsEvents + 1
  /\ UNCHANGED <<bootVars, errorDir, config, fetcher, fs, state, cycle, urlVars, scanVars, jobs, bi,
                 batch, completedKeys, decisions, extractions, hist, pc, exitCode>>

\* main.ts:335-346: the handler sets the flag, saves and calls process.exit(0)
\* without any await: the process ends inside the handler.  main() installs
\* it at l.574, at the end of its start-up.
shutdown(how) ==
  /\ Alive /\ ~isShuttingDown /\ pc # "boot"
  /\ isShuttingDown' = TRUE
  /\ disk' = saveProcessedState(how)
  /\ fsEvents' = IF how = "written" THEN fsEvents ELSE fsEvents + 1
  /\ pc' = "exited" /\ exitCode' = 0
  /\ UNCHANGED <<bootVars, errorDir, config, fetcher, fs, state, cycle, urlVars, scanVars, jobs, bi,
                 batch, completedKeys, decisions, extractions, hist>>

(* --------------------------- the fetch chain -------------------------- *)
\* A chain that sends a request to a layer whatever the configuration says.
LayerAlwaysEnabled(l) == TRUE

\* fetcher.ts:64, 110 (and 305): a disabled layer returns a failure at once.
\* The second definition of fetchUrl (l.343) has no third layer.
LayerEnabled(l) ==
  CASE l = 1 -> TRUE
    [] l = 2 -> config.playwrightEnabled
    [] l = 3 -> config.browserlessEnabled
    [] OTHER -> FALSE

\* A chain that goes on after a layer succeeded.
ReturnsNever(ok) == FALSE

\* fetcher.ts:160, 164, 168: a layer's result is returned when it succeeded.
ReturnsOn(ok) == ok

\* fetcher.ts:267-282, 317-328, 120-150: what the request of a layer can
\* come back with.  "jsPage" is a 2xx answer whose body asks for client-side
\* rendering; a browser renders such a page, so layers 2 and 3 see "page".
Responses(l) ==
  CASE l = 1 -> {"page", "jsPage", "httpError"}
    [] l = 2 -> {"page", "navError", "timeout"}
    [] OTHER -> {"page", "httpError"}

\* A native layer that returns every 2xx body as it came.
AnyBodyAccepted(l, resp) == resp \in {"page", "jsPage"}

\* fetcher.ts:278-293, 320-334, 134-150: a layer succeeds with a page; the
\* native layer throws on a body that asks for client-side rendering.
LayerSucceeds(l, resp) == resp = "page"

\* fetcher.ts:279, 289, 296, 305, 339: the error a failed layer returns.
LayerError(resp) ==
  CASE resp = "jsPage" -> "Page requires JavaScript rendering"
    [] resp = "httpError" -> "HTTP error"
    [] resp = "navError" -> "navigation failed"
    [] resp = "timeout" -> "Timeout exceeded"
    [] resp = "disabled" -> "layer disabled"
    [] OTHER -> ""

\* fetcher.ts:293, 334, 150: the page a layer returns.
Body(l) == CASE l = 1 -> "html1" [] l = 2 -> "html2" [] OTHER -> "html3"

\* A chain whose failure is the failure of the layer it called last.
lastLayerFailed(tr) ==
  [success |-> FALSE, method |-> fetcher, error |-> LayerError(tr[Len(tr)].resp),
   html |-> ""]

\* fetcher.ts:170-178 / 353-359: the result when no layer succeeded.
allFailed(tr) ==
  [success |-> FALSE, method |-> fetcher, error |-> "All fetch methods failed",
   html |-> ""]

\* A browser that is closed after a page was read only.
closeOnSuccess(b, resp) == IF resp = "page" THEN b - 1 ELSE b

\* fetcher.ts:335-337: the finally block closes the browser however the
\* try block ended.
closeBrowser(b, resp) == b - 1

\* fetcher.ts:313: the browser is launched when layer 2 gets its request.
launched(l, b) == IF l = 2 THEN b + 1 ELSE b

\* fetcher.ts:157-179 / 343-360 from the call of layer l: the layers that
\* are disabled fail without a request; the first enabled one sends its
\* request; past the last layer the aggregate failure is returned.
RECURSIVE fetchFrom(_, _)
fetchFrom(l, tr) ==
  IF l > fetcher
  THEN [layer |-> 0, trace |-> tr, done |-> TRUE, result |-> allFailed(tr)]
  ELSE IF LayerEnabled(l)
       THEN [layer |-> l, trace |-> tr, done |-> FALSE,
             result |-> [success |-> FALSE, method |-> 0, error |-> "", html |-> ""]]
       ELSE fetchFrom(l + 1, Append(tr, [layer |-> l, attempted |-> FALSE, ok |-> FALSE,
                                         resp |-> "disabled"]))

\* The request of layer l came back.
fetchStep(l, tr, resp) ==
  LET ok == LayerSucceeds(l, resp)
      tr2 == Append(tr, [layer |-> l, attempted |-> TRUE, ok |-> ok, resp |-> resp])
  IN IF ReturnsOn(ok)
     THEN [layer |-> 0, trace |-> tr2, done |-> TRUE,
           result |-> [success |-> TRUE, method |-> l, error |-> "", html |-> Body(l)]]
     ELSE fetchFrom(l + 1, tr2)

(* ------------------------- processUrls -------------------------------- *)
UrlDecision(e, st) ==
  [kind |-> "url", key |-> e.url, fresh |-> calculateStringHash(e.url),
   had |-> e.url \in DOMAIN st,
   same |-> (e.url \in DOMAIN st /\ st[e.url].hash = calculateStringHash(e.url)),
   skipped |-> isFileProcessed(st, e.url, calculateStringHash(e.url))]

\* main.ts:386-397: the first entry from `from` on that the ledger does not
\* hold, or Len + 1.
RECURSIVE FirstNew(_, _, _)
FirstNew(us, from, st) ==
  IF from > Len(us) THEN from
  ELSE IF isFileProcessed(st, us[from].url, calculateStringHash(us[from].url))
       THEN FirstNew(us, from + 1, st)
       ELSE from

\* main.ts:386-399 and 429: the URL loop from entry `from` with ledger st, up
\* to its next await: the fetch of an entry, or the hash of the list file.
UrlIter(us, from, st, b) ==
  LET stop == IF isShuttingDown THEN Len(us) + 1 ELSE FirstNew(us, from, st)
      last == Min(stop, Len(us))
  IN /\ urls' = us /\ ue' = stop
     /\ decisions' = IF isShuttingDown THEN <<>>
                     ELSE [k \in 1..(last - from + 1) |-> UrlDecision(us[from + k - 1], st)]
     /\ IF stop > Len(us)
        THEN /\ pc' = "markList" /\ layer' = 0 /\ fetchTrace' = <<>>
             /\ browsers' = b
        ELSE LET f == fetchFrom(1, <<>>)
             IN /\ pc' = "fetch" /\ layer' = f.layer /\ fetchTrace' = f.trace
                /\ browsers' = launched(f.layer, b)

\* main.ts:446-449 and 441-443, 526: the loop over the list files from index
\* i, up to its await of calculateFileHash; after the last list processUrls
\* returns and processFiles starts.
UrlsLoop(ufs, i) ==
  /\ urlFiles' = ufs
  /\ IF i <= Len(ufs) /\ ~isShuttingDown
     THEN /\ pc' = "urlsLoop" /\ ui' = i
          /\ UNCHANGED <<entries, ei, stage, newFiles>>
     ELSE /\ ui' = 0 /\ EnterProcessFiles

\* main.ts:520-526, 433-439, 352-361: a cycle starts.
\* main.ts:545-574: main() up to its first await.  An invalid configuration
\* ends the process with code 1 before the ledger is read.
main ==
  /\ Alive /\ pc = "boot"
  /\ LET c == loadConfig(env)
         l == loadProcessedState(disk)
     IN /\ config' = c
        /\ IF validateConfig(c) # {}
           THEN /\ pc' = "exited" /\ exitCode' = 1
                /\ UNCHANGED <<state, loaded>>
           ELSE /\ pc' = "start" /\ state' = l.files
                /\ loaded' = [done |-> TRUE, file |-> disk, result |-> l]
                /\ UNCHANGED exitCode
  /\ UNCHANGED <<env, now, errorDir, fetcher, fs, disk, isShuttingDown, cycle, urlVars, scanVars,
                 jobs, bi, batch, fsEvents, completedKeys, decisions, extractions,
                 hist>>

runCycle ==
  /\ Alive /\ pc \in {"start", "sleep"} /\ ~isShuttingDown
  /\ cycle < MaxCycles
  /\ cycle' = cycle + 1
  /\ extractions' = 0
  /\ hist' = [hist EXCEPT !.failedPrev = hist.failedNow, !.failedNow = FALSE,
                          !.threw = FALSE, !.recovered = hist.threw,
                          !.saveFailed = FALSE, !.atStart = state]
  /\ LET txts == SelectSeq(getAllInputFiles, IsTxt)
     IN IF config.fetchUrls /\ txts # <<>>
        THEN /\ pc' = "findUrlFiles" /\ items' = txts /\ ui' = 1 /\ urlFiles' = <<>>
             /\ UNCHANGED <<entries, ei, stage, newFiles>>
        ELSE /\ items' = <<>> /\ ui' = 0 /\ urlFiles' = <<>> /\ EnterProcessFiles
  /\ UNCHANGED <<bootVars, errorDir, config, fetcher, fs, state, disk, isShuttingDown, exitCode, urls,
                 ue, layer, browsers, jobs, bi, batch, fsEvents, completedKeys, decisions,
                 fetchTrace, fetchResult>>

\* main.ts:358-366: detectUrlsInTextFile of one item came back.
FindDetect ==
  /\ Alive /\ pc = "findUrlFiles"
  /\ LET p == items[ui]
         found == IF detectUrlsInTextFile(fs[p]) THEN Append(urlFiles, p) ELSE urlFiles
     IN IF ui + 1 <= Len(items)
        THEN /\ ui' = ui + 1 /\ urlFiles' = found
             /\ UNCHANGED <<pc, items, entries, ei, stage, newFiles>>
        ELSE /\ items' = <<>> /\ UrlsLoop(found, 1)
  /\ hist' = [hist EXCEPT !.detected = [c |-> fs[items[ui]],
                                         r |-> detectUrlsInTextFile(fs[items[ui]])]]
  /\ UNCHANGED <<bootVars, errorDir, config, fetcher, fs, state, disk, isShuttingDown, exitCode, cycle,
                 urls, ue, layer, browsers, jobs, bi, batch, fsEvents, completedKeys,
                 decisions, extractions, fetchTrace, fetchResult>>

\* main.ts:449-455, 378: the list file's hash came back.
UrlsLoopHash ==
  /\ Alive /\ pc = "urlsLoop"
  /\ fs[urlFiles[ui]] # Absent
  /\ LET p == urlFiles[ui]
         h == calculateFileHash(p)
         skip == isFileProcessed(state, p, h)
     IN /\ decisions' = <<[kind |-> "list", key |-> p, fresh |-> h,
                           had |-> p \in DOMAIN state,
                           same |-> (p \in DOMAIN state /\ state[p].hash = h),
                           skipped |-> skip]>>
        /\ IF skip
           THEN UrlsLoop(urlFiles, ui + 1)
           ELSE /\ pc' = "parse"
                /\ UNCHANGED <<urlFiles, ui, entries, ei, stage, newFiles>>
  /\ UNCHANGED <<bootVars, errorDir, config, fetcher, fs, state, disk, isShuttingDown, exitCode, cycle,
                 items, urls, ue, layer, browsers, jobs, bi, batch, fsEvents, completedKeys,
                 extractions, fetchTrace, fetchResult, hist>>

\* A throw inside processUrls: runCycle catches it.
UrlThrow ==
  /\ pc' = runCycleCatch.pc /\ exitCode' = runCycleCatch.exitCode
  /\ items' = <<>> /\ urlFiles' = <<>> /\ ui' = 0 /\ urls' = <<>> /\ ue' = 0
  /\ layer' = 0 /\ UNCHANGED browsers
  /\ hist' = [hist EXCEPT !.threw = TRUE]
  /\ UNCHANGED <<bootVars, errorDir, config, fetcher, fs, state, disk, isShuttingDown, cycle, scanVars,
                 jobs, bi, batch, fsEvents, completedKeys, decisions, extractions,
                 fetchTrace, fetchResult>>

\* main.ts:449 or 429: calculateFileHash of the list file rejects.
UrlsLoopThrows ==
  /\ Alive /\ pc \in {"urlsLoop", "markList"}
  /\ fs[urlFiles[ui]] = Absent
  /\ UrlThrow

\* main.ts:378-386: parseUrlFile came back.
UrlParse ==
  /\ Alive /\ pc = "parse"
  /\ LET us == parseUrlFile(fs[urlFiles[ui]])
     IN IF us = <<>>
        THEN /\ urls' = <<>> /\ ue' = 0
             /\ UrlsLoop(urlFiles, ui + 1)
             /\ UNCHANGED <<layer, browsers, fetchTrace, decisions>>
        ELSE /\ UrlIter(us, 1, state, browsers)
             /\ UNCHANGED <<urlFiles, ui, entries, ei, stage, newFiles>>
  /\ hist' = [hist EXCEPT !.parsed = [c |-> fs[urlFiles[ui]],
                                       r |-> parseUrlFile(fs[urlFiles[ui]])]]
  /\ UNCHANGED <<bootVars, errorDir, config, fetcher, fs, state, disk, isShuttingDown, exitCode, cycle,
                 items, jobs, bi, batch, fsEvents, completedKeys, extractions,
                 fetchResult>>

\* fetcher.ts:157-179 / 343-360 and main.ts:399-419: the request of the layer
\* in flight came back.  On success the page is written to the cache and
\* extractDocument is called; on the chain's failure the loop goes on.
FetchLayerDone(resp) ==
  /\ Alive /\ pc = "fetch"
  /\ LET f == fetchStep(layer, fetchTrace, resp)
         b == IF layer = 2 THEN closeBrowser(browsers, resp) ELSE browsers
     IN IF ~f.done
        THEN /\ layer' = f.layer /\ fetchTrace' = f.trace
             /\ browsers' = launched(f.layer, b)
             /\ UNCHANGED <<pc, urls, ue, decisions, fetchResult, extractions, hist>>
        ELSE /\ fetchResult' = [success |-> f.result.success, method |-> f.result.method,
                                error |-> f.result.error, html |-> f.result.html,
                                trace |-> f.trace]
             /\ IF f.result.success
                THEN /\ pc' = "urlExtract" /\ layer' = 0 /\ fetchTrace' = <<>>
                     /\ browsers' = b
                     /\ extractions' = extractions + 1
                     /\ hist' = [hist EXCEPT !.fetchFailed =
                                   @ \ {<<urlFiles[ui], urls[ue].url>>},
                                 !.urlItem = [attempts |-> 1, givenUp |-> FALSE]]
                     /\ UNCHANGED <<urls, ue, decisions>>
                ELSE /\ UNCHANGED extractions
                     /\ hist' = [hist EXCEPT !.fetchFailed =
                                   @ \cup {<<urlFiles[ui], urls[ue].url>>}]
                     /\ UrlIter(urls, ue + 1, state, b)
  /\ UNCHANGED <<bootVars, errorDir, config, fetcher, fs, state, disk, isShuttingDown, exitCode, cycle,
                 items, urlFiles, ui, scanVars, jobs, bi, batch, fsEvents,
                 completedKeys>>

\* main.ts:410-427: extractDocument of the cached page came back.  The
\* output path is the one computed before the call (l.410); the clock stands
\* still in the specifications that fetch.
UrlExtractDone(ok) ==
  /\ Alive /\ pc = "urlExtract"
  /\ LET e == urls[ue]
         out == generateOutputPath(urlToFilename(e.url, e.filename), now)
         st == IF ok
               THEN markFileProcessed(state, e.url, calculateStringHash(e.url), out, 0)
               ELSE state
     IN /\ state' = st
        /\ UrlIter(urls, ue + 1, st, browsers)
  /\ completedKeys' = IF ok THEN completedKeys \cup {urls[ue].url} ELSE completedKeys
  /\ hist' = [hist EXCEPT !.urlItem.givenUp = ~ok]
  /\ UNCHANGED <<bootVars, errorDir, config, fetcher, fs, disk, isShuttingDown, exitCode, cycle, items,
                 urlFiles, ui, scanVars, jobs, bi, batch, fsEvents, extractions,
                 fetchResult>>

\* main.ts:429-431 and 446-449: the list file's hash came back, the list is
\* recorded, processUrls goes to its next list.
MarkList ==
  /\ Alive /\ pc = "markList"
  /\ fs[urlFiles[ui]] # Absent
  /\ state' = markFileProcessed(state, urlFiles[ui], calculateFileHash(urlFiles[ui]),
                                UrlListMarker, 0)
  /\ urls' = <<>> /\ ue' = 0
  /\ UrlsLoop(urlFiles, ui + 1)
  /\ UNCHANGED <<bootVars, errorDir, config, fetcher, fs, disk, isShuttingDown, exitCode, cycle, items,
                 layer, browsers, jobs, bi, batch, fsEvents, completedKeys, decisions,
                 extractions, fetchTrace, fetchResult, hist>>

(* ------------------------------ the system ---------------------------- *)

Configs(retries, conc, skips, urlsOn, pw, bl) ==
  [maxRetries : retries, concurrentJobs : conc, skipExisting : skips,
   fetchUrls : urlsOn, playwrightEnabled : pw, browserlessEnabled : bl,
   watchInterval : {30}, addTimestamp : {FALSE}]

\* The environment that loadConfig turns into c.
BoolText(b) == IF b THEN Text("true") ELSE Text("false")
EnvOf(c) ==
  [WATCH_INTERVAL |-> Digits(c.watchInterval), CONCURRENT_JOBS |-> Digits(c.concurrentJobs),
   MAX_RETRIES |-> Digits(c.maxRetries), SKIP_EXISTING |-> BoolText(c.skipExisting),
   FETCH_URLS |-> BoolText(c.fetchUrls),
   PLAYWRIGHT_ENABLED |-> BoolText(c.playwrightEnabled),
   BROWSERLESS_ENABLED |-> BoolText(c.browserlessEnabled),
   ADD_TIMESTAMP |-> BoolText(c.addTimestamp)]

\* Nothing has run yet.
Idle ==
  /\ isShuttingDown = FALSE /\ exitCode = -1 /\ cycle = 0 /\ now = 0
  /\ items = <<>> /\ urlFiles = <<>> /\ ui = 0 /\ urls = <<>> /\ ue = 0 /\ layer = 0 /\ browsers = 0
  /\ entries = <<>> /\ ei = 0 /\ stage = "none" /\ newFiles = <<>>
  /\ jobs = <<>> /\ bi = 0 /\ batch = {}
  /\ errorDir = [p \in DOMAIN fs |-> [content |-> Absent, log |-> FALSE]]
  /\ fsEvents = 0 /\ completedKeys = {} /\ decisions = <<>> /\ extractions = 0
  /\ fetchTrace = <<>>
  /\ fetchResult = [success |-> FALSE, method |-> 0, error |-> "", html |-> "", trace |-> <<>>]
  /\ hist = [changed |-> FALSE, failedNow |-> FALSE,
             failedPrev |-> FALSE, threw |-> FALSE, recovered |-> FALSE,
             failedAt |-> [p \in DOMAIN fs |-> Absent],
             okAt |-> [p \in DOMAIN fs |-> {}], fetchFailed |-> {},
             saveFailed |-> FALSE, atStart |-> state,
             urlItem |-> [attempts |-> 0, givenUp |-> FALSE],
             parsed |-> [c |-> Absent, r |-> <<>>],
             detected |-> [c |-> Absent, r |-> FALSE]]

\* main() has started over no ledger file: the state at its first runCycle.
InitWith(cfgs, chains, fs0) ==
  /\ config \in cfgs
  /\ env = EnvOf(config)
  /\ fetcher \in chains
  /\ fs = fs0
  /\ state = EmptyLedger /\ disk = MissingFile
  /\ loaded = [done |-> TRUE, file |-> MissingFile,
               result |-> loadProcessedState(MissingFile)]
  /\ pc = "start"
  /\ Idle

Tree(docs, txt) ==
  [p \in AllPaths |-> IF p \in docs THEN 1 ELSE IF IsTxt(p) THEN txt ELSE Absent]

Environment ==
  \/ \E p \in AllPaths : \E c \in DocContents \cup TextContents : ModifyFile(p, c)
  \/ \E p \in AllPaths : DeleteFile(p)
  \/ \E how \in SaveOutcomes : shutdown(how)

FileSteps ==
  \/ runCycle
  \/ ScanDecide
  \/ ScanThrows
  \/ \E k \in DOMAIN jobs : TaskHash(k)
  \/ \E k \in DOMAIN jobs : TaskHashRejects(k)
  \/ \E k \in DOMAIN jobs : \E ok \in BOOLEAN : TaskExtract(k, ok)
  \/ \E k \in DOMAIN jobs : TaskSleepDone(k)
  \/ \E how \in SaveOutcomes : AwaitBatch(how)

UrlSteps ==
  \/ ScanDetect
  \/ FindDetect
  \/ UrlsLoopHash
  \/ UrlsLoopThrows
  \/ UrlParse
  \/ \E resp \in Responses(layer) : FetchLayerDone(resp)
  \/ \E ok \in BOOLEAN : UrlExtractDone(ok)
  \/ MarkList

\* The whole program: one document, one URL list of two entries.
Init ==
  InitWith(Configs(1..MaxRetriesCfg, {1}, BOOLEAN, {TRUE}, BOOLEAN, {TRUE}), {2, 3},
           Tree({"a.pdf"}, 10))
Next == Environment \/ FileSteps \/ UrlSteps
Spec == Init /\ [][Next]_vars

\* The text functions: one document and a text file that starts as any of
\* the texts, with URL fetching on and off.
InitText ==
  \E c \in Texts :
    InitWith(Configs({MaxRetriesCfg}, {1}, {TRUE}, BOOLEAN, {TRUE}, {TRUE}), {3},
             Tree({"a.pdf"}, c))
SpecText == InitText /\ [][Next]_vars

\* The file pipeline alone (FETCH_URLS=false): two documents.
InitFiles ==
  InitWith(Configs(0..MaxRetriesCfg, 1..MaxConcurrency, BOOLEAN, {FALSE}, {FALSE}, {FALSE}),
           {3}, Tree({"a.pdf", "b.pdf"}, Absent))
NextFiles == Environment \/ FileSteps
SpecFiles == InitFiles /\ [][NextFiles]_vars

\* Progress: one document; the steps that depend on the program alone (its
\* timers and its reads of local files) are taken when they can be; the
\* return of the extractor, an external process, is not promised.
InitHang ==
  InitWith(Configs({MaxRetriesCfg}, {1}, BOOLEAN, {FALSE}, {FALSE}, {FALSE}), {3},
           Tree({"a.pdf"}, Absent))
Program ==
  \/ runCycle
  \/ ScanDecide
  \/ ScanThrows
  \/ \E k \in DOMAIN jobs : TaskHash(k)
  \/ \E k \in DOMAIN jobs : TaskHashRejects(k)
  \/ \E k \in DOMAIN jobs : TaskSleepDone(k)
  \/ \E how \in SaveOutcomes : AwaitBatch(how)
SpecHang == InitHang /\ [][NextFiles]_vars /\ WF_vars(Program)

\* Time: two documents of one base name, one batch, a clock that moves on
\* while the jobs run, output names with and without the time of day.
Tick ==
  /\ now < MaxClock
  /\ now' = now + 1
  /\ UNCHANGED <<env, loaded, errorDir, config, fetcher, fs, state, disk, isShuttingDown,
                 pc, exitCode, cycle, urlVars, scanVars, jobs, bi, batch, fsEvents,
                 completedKeys, decisions, extractions, hist>>
InitStamp ==
  InitWith({[c EXCEPT !.addTimestamp = b] :
              c \in Configs(1..MaxRetriesCfg, {MaxConcurrency}, {TRUE}, {FALSE}, {FALSE}, {FALSE}),
              b \in BOOLEAN},
           {3}, Tree({"a.docx", "a.pdf"}, Absent))
NextStamp == Tick \/ NextFiles
SpecStamp == InitStamp /\ [][NextStamp]_vars

\* Three documents, two jobs at a time.
InitBatch ==
  InitWith(Configs({MaxRetriesCfg}, {MaxConcurrency}, {TRUE}, {FALSE}, {FALSE}, {FALSE}), {3},
           Tree({"a.pdf", "b.pdf", "c.pdf"}, Absent))
SpecBatch == InitBatch /\ [][NextFiles]_vars

\* Start-up: main() from its first line, over every kind of ledger file and
\* environment, then the file pipeline over one document.
OldLedger == [k \in {"a.pdf"} |-> [hash |-> 1, outputPath |-> "a.md", retries |-> 0]]
LedgerFiles ==
  {MissingFile, GarbageFile, NullFile, JsonFile("0.9.0", OldLedger),
   JsonFile(STATE_VERSION, OldLedger)}
Envs ==
  [WATCH_INTERVAL : {Undef, Text("abc"), Digits(0), Digits(1)},
   CONCURRENT_JOBS : {Undef, Digits(0), Digits(1), Prefixed(2)},
   MAX_RETRIES : {Text(""), Digits(-1), Digits(0), Digits(1)},
   SKIP_EXISTING : {Undef, Text("TRUE"), Text("false")},
   FETCH_URLS : {Text("false")},
   PLAYWRIGHT_ENABLED : {Text("0")},
   BROWSERLESS_ENABLED : {Text("no")},
   ADD_TIMESTAMP : {Text("false")}]
NoConfig == loadConfig(EnvOf(CHOOSE c \in Configs({0}, {0}, {FALSE}, {FALSE}, {FALSE}, {FALSE}) : TRUE))
InitBoot ==
  /\ env \in Envs
  /\ disk \in LedgerFiles
  /\ config = NoConfig
  /\ fetcher = 3
  /\ fs = Tree({"a.pdf"}, Absent)
  /\ state = EmptyLedger
  /\ loaded = [done |-> FALSE, file |-> MissingFile,
               result |-> loadProcessedState(MissingFile)]
  /\ pc = "boot"
  /\ Idle
NextBoot == main \/ NextFiles
SpecBoot == InitBoot /\ [][NextBoot]_vars

(* ============================ properties ============================== *)

\* C1: an item is left out of the work exactly when the ledger holds an
\* entry under its key with the fingerprint just computed; for a plain file
\* this holds only under SKIP_EXISTING (main.ts:475), which a URL and a URL
\* list do not consult (main.ts:389, 449).
C1_SkipIffSameFingerprint ==
  \A i \in DOMAIN decisions :
    LET d == decisions[i]
    IN d.skipped <=> (d.same /\ (d.kind = "file" => config.skipExisting))

\* C1 as stated: skipped if and only if the ledger's fingerprint is equal.
C1_SkipIffSameFingerprintAlways ==
  \A i \in DOMAIN decisions : decisions[i].skipped <=> decisions[i].same

\* A file the ledger holds under another fingerprint is queued again.
C1_ChangedFileQueued ==
  \E i \in DOMAIN decisions :
    LET d == decisions[i]
    IN d.kind = "file" /\ d.had /\ ~d.same /\ ~d.skipped /\ config.skipExisting

\* C2: every ledger key but that of a URL list stands for an extraction
\* that completed; a URL list is recorded under the marker
\* "url-list-processed" without any extraction of its own (main.ts:429-430).
C2_LedgerOnlyAfterSuccess ==
  \A k \in DOMAIN state :
    state[k].outputPath # UrlListMarker => k \in completedKeys

\* C2 as stated: every ledger key stands for a completed extraction.
C2_EveryLedgerKeyCompleted == DOMAIN state \subseteq completedKeys

\* The ledger holds a document while one of its jobs ended failed.
C2_LedgerWithDocumentAndFailure ==
  /\ \E k \in DOMAIN state : state[k].outputPath # UrlListMarker
  /\ hist.failedNow \/ hist.failedPrev

\* C3: a job whose every attempt fails makes exactly maxRetries attempts and
\* ends failed, with one quarantine copy and one error log if its input
\* still exists when moveToError runs, and neither if it is gone
\* (processor.ts:148-161 swallows the copy's error).
C3_FailedAfterMaxRetries ==
  \A k \in DOMAIN jobs :
    jobs[k].status = "failed" =>
      /\ jobs[k].attempts = config.maxRetries
      /\ jobs[k].retries = config.maxRetries
      /\ jobs[k].copies \in {0, 1}
      /\ jobs[k].logs = jobs[k].copies
      /\ fs[jobs[k].path] # Absent => jobs[k].copies = 1

\* C3 as stated: exactly one copy and one log for every failed job.
C3_FailedAlwaysQuarantined ==
  \A k \in DOMAIN jobs :
    jobs[k].status = "failed" =>
      /\ jobs[k].attempts = config.maxRetries
      /\ jobs[k].copies = 1 /\ jobs[k].logs = 1

\* A job failed after more than one attempt and was quarantined.
C3_FailedJobQuarantined ==
  \E k \in DOMAIN jobs :
    /\ jobs[k].status = "failed" /\ jobs[k].attempts = MaxRetriesCfg
    /\ jobs[k].copies = 1 /\ jobs[k].logs = 1

\* C4: at every moment the number of jobs whose status is "processing" is
\* at most CONCURRENT_JOBS.
C4_ProcessingWithinLimit ==
  Cardinality({k \in DOMAIN jobs : jobs[k].status = "processing"})
    <= config.concurrentJobs

\* C5: while the jobs of a batch run, every job ahead of that batch has
\* reached completed or failed: no batch starts before the one before it
\* has ended.
C5_EarlierJobsTerminal ==
  \A k \in DOMAIN jobs :
    (batch # {} /\ \A b \in batch : k < b) =>
      jobs[k].status \in {"completed", "failed"}

\* C6: fetchUrl calls its layers in the order 1, 2, 3, goes on only after a
\* failure, and returns the first success: the result's method is the layer
\* that succeeded and no layer after it is called.
InOrder(tr) == \A i \in DOMAIN tr : tr[i].layer = i
FailedBeforeLast(tr) == \A i \in DOMAIN tr : i < Len(tr) => ~tr[i].ok
C6_FirstSuccessWins ==
  /\ InOrder(fetchTrace)
  /\ \A i \in DOMAIN fetchTrace : ~fetchTrace[i].ok
  /\ pc = "fetch" => layer = Len(fetchTrace) + 1
  /\ InOrder(fetchResult.trace)
  /\ FailedBeforeLast(fetchResult.trace)
  /\ fetchResult.success =>
       /\ fetchResult.trace # <<>>
       /\ fetchResult.trace[Len(fetchResult.trace)].ok
       /\ fetchResult.method = Len(fetchResult.trace)
  /\ (~fetchResult.success /\ fetchResult.trace # <<>>) =>
       /\ Len(fetchResult.trace) = fetcher
       /\ ~fetchResult.trace[fetcher].ok

\* Layer 1 failed, layer 2 succeeded, layer 3 was there and was not called.
C6_SecondLayerAnswered ==
  /\ fetcher = 3 /\ config.browserlessEnabled
  /\ fetchResult.success /\ fetchResult.method = 2
  /\ Len(fetchResult.trace) = 2 /\ fetchResult.trace[1].attempted

\* C7: over an input tree that has not changed since the process started,
\* a cycle after the first extracts nothing, provided SKIP_EXISTING is on
\* and no job of the cycle before ended failed (a failed job is not in the
\* ledger, so its file is queued again).
Unchanged == cycle >= 2 /\ ~hist.changed
C8_BatchFinishedBeforeExit ==
  exitCode = 0 =>
    \A k \in batch : jobs[k].status \in {"completed", "failed"}

\* C9: once the shutdown flag is set no step of the program can be taken
\* any more, since the handler that sets it ends the process in the same
\* callback: no batch, no URL iteration and no cycle starts.
C9_NothingStartsAfterShutdown ==
  isShuttingDown => (~Alive /\ ~ENABLED (FileSteps \/ UrlSteps))

\* The flag was set while a batch was in flight and jobs were still queued.
C9_ShutdownWithWorkLeft ==
  /\ isShuttingDown /\ batch # {}
  /\ \E k \in DOMAIN jobs : jobs[k].pc = "new"

\* C10: an error thrown inside a cycle is caught by runCycle: the process is
\* still running (unless a signal ended it with code 0), the main loop is at
\* its sleep, and the next cycle can start.
C10_CycleErrorCaught ==
  hist.threw =>
    /\ exitCode \in {-1, 0}
    /\ ~isShuttingDown =>
         /\ Alive /\ pc = "sleep"
         /\ cycle < MaxCycles => ENABLED runCycle

\* A cycle started after the one before it had thrown.
C10_CycleAfterError == hist.recovered /\ cycle = 2 /\ Alive

\* C11: loadProcessedState returns a ledger of the runtime version; it holds
\* the file's entries when the file is a JSON document of exactly that
\* version, and no entry when the file is missing, is no JSON, or carries
\* another version.  In no case does the load stop main(): with a valid
\* configuration the start-up always reaches the first cycle.
C11_LoadFreshUnlessVersionMatches ==
  /\ (pc # "boot" /\ exitCode # 1) => loaded.done
  /\ loaded.done =>
       /\ loaded.result.version = STATE_VERSION
       /\ loaded.result.files =
            IF loaded.file.kind = "json" /\ loaded.file.version = STATE_VERSION
            THEN loaded.file.files ELSE EmptyLedger

\* A ledger file of version 0.9.0 with an entry was loaded as an empty
\* ledger, and a cycle started.
C11_OldVersionLoadedEmpty ==
  /\ loaded.done /\ loaded.file = JsonFile("0.9.0", OldLedger)
  /\ loaded.result.files = EmptyLedger /\ cycle >= 1

\* C12: the ledger file is never rewritten in place, so at every moment it
\* holds a complete ledger: the copy from before the save or the new one.
C12_LedgerFileAlwaysComplete ==
  disk = MissingFile \/ (disk.kind = "json" /\ disk.version = STATE_VERSION)

\* Layers 2 and 3 are switched by PLAYWRIGHT_ENABLED and BROWSERLESS_ENABLED.
EnabledByConfig(l) ==
  \/ l = 1
  \/ l = 2 /\ config.playwrightEnabled
  \/ l = 3 /\ config.browserlessEnabled

\* C13: fetchUrl returns a failure only when every layer the configuration
\* enables (direct fetch, headless browser, remote rendering API) was tried
\* and failed.
C13_FailureOnlyAfterEveryEnabledLayer ==
  (fetchResult.trace # <<>> /\ ~fetchResult.success) =>
    \A l \in 1..3 :
      EnabledByConfig(l) =>
        \E i \in DOMAIN fetchResult.trace :
          /\ fetchResult.trace[i].layer = l
          /\ fetchResult.trace[i].attempted /\ ~fetchResult.trace[i].ok

\* C14: a layer the configuration disables gets no request: no request is
\* ever in flight for it, its entry in the chain is a failure without an
\* attempt, and the chain goes on to the layer after it.
DisabledSkipped(tr) ==
  \A i \in DOMAIN tr :
    ~EnabledByConfig(tr[i].layer) => (~tr[i].attempted /\ ~tr[i].ok)
C14_DisabledLayerNotAttempted ==
  /\ pc = "fetch" => EnabledByConfig(layer)
  /\ DisabledSkipped(fetchTrace)
  /\ DisabledSkipped(fetchResult.trace)
  /\ \A i \in DOMAIN fetchResult.trace :
       (~EnabledByConfig(i) /\ i < fetcher) => Len(fetchResult.trace) > i

\* Layer 2 was disabled and skipped, and layer 3 answered.
C14_SkippedToThirdLayer ==
  /\ ~config.playwrightEnabled /\ Len(fetchResult.trace) = 3
  /\ ~fetchResult.trace[2].attempted
  /\ fetchResult.trace[3].attempted /\ fetchResult.success

\* The step in which job k ends failed while its input exists.
FailsNow(k) ==
  /\ k \in DOMAIN jobs /\ k \in DOMAIN jobs'
  /\ jobs'[k].path = jobs[k].path /\ jobs'[k].born = jobs[k].born
  /\ jobs[k].status # "failed" /\ jobs'[k].status = "failed"
  /\ fs[jobs[k].path] # Absent

ScanDecides(p) ==
  /\ pc = "scan" /\ stage = "hash" /\ entries[ei] = p /\ fs[p] # Absent
  /\ ~isShuttingDown'
  /\ <<pc, stage, ei>>' # <<pc, stage, ei>>
\* The last job of p ended failed on the content p has now, the content did
\* not change since, and no job ever completed on that content.
FailedUnchanged(p) ==
  /\ hist.failedAt[p] = fs[p]
  /\ fs[p] \notin hist.okAt[p]
Queued(p) ==
  \/ newFiles' = Append(newFiles, p)
  \/ \E k \in DOMAIN jobs' : jobs'[k].path = p /\ jobs'[k].born = cycle

C17_FailedUrlResolvedAgain ==
  \A i \in DOMAIN decisions :
    ( /\ decisions[i].kind = "list"
      /\ ~hist.changed
      /\ \E u \in hist.fetchFailed : u[1] = decisions[i].key )
    => ~decisions[i].skipped

\* The entries a text yields, line by line: one for each line that is
\* neither blank nor a comment and whose first token parses as a URL.
RECURSIVE EntriesOf(_)
EntriesOf(lines) ==
  IF lines = <<>> THEN <<>>
  ELSE LET l == Head(lines)
           rest == EntriesOf(Tail(lines))
       IN IF l.kind = "entry" /\ l.tok \in {"u1", "u2", "ftp1"}
          THEN <<[url |-> l.tok, filename |-> l.name]>> \o rest
          ELSE rest

\* C18: parseUrlFile returns, in file order, one entry per line that is not
\* blank, not a comment and whose first token parses as a URL, with the
\* second token as file name; the text "# comment / u1 x / not-a-url" yields
\* exactly the entry (u1, x).
C18_ParseKeepsUrlLinesInOrder ==
  /\ hist.parsed.r = EntriesOf(TextOf(hist.parsed.c))
  /\ hist.parsed.c = 12 => hist.parsed.r = <<[url |-> "u1", filename |-> "x"]>>

\* The text of the scenario was parsed.
C18_ScenarioParsed == hist.parsed.c = 12 /\ Len(hist.parsed.r) = 1

\* Every line of text c that is neither blank nor a comment starts with an
\* http or https URL; c has such a line.
AllHttp(c) ==
  \A i \in DOMAIN TextOf(c) :
    TextOf(c)[i].kind = "entry" => TextOf(c)[i].tok \in {"u1", "u2"}
HasLine(c) == \E i \in DOMAIN TextOf(c) : TextOf(c)[i].kind = "entry"

\* C19: detectUrlsInTextFile classifies an existing text file as a URL list
\* exactly when it has at least one line that is neither blank nor a
\* comment and every such line starts with an http or https URL.
C19_UrlListIffSomeAndAllHttp ==
  hist.detected.c # Absent =>
    (hist.detected.r <=> (HasLine(hist.detected.c) /\ AllHttp(hist.detected.c)))

\* C19 as stated: every text file whose non-comment, non-blank lines all
\* parse as http or https URLs is classified as a URL list.
C19_UrlListIfAllHttp ==
  (hist.detected.c # Absent /\ AllHttp(hist.detected.c)) => hist.detected.r

\* A file of comments and blank lines only was not taken for a URL list.
C19_CommentsOnlyNotAList ==
  /\ hist.detected.c = 13 /\ ~hist.detected.r
  /\ AllHttp(13) /\ ~HasLine(13)

\* A variable that is not set or holds no number.
NoNumber(value) == value.kind \in {Undef.kind, Text("").kind}

EndsFailed(k) ==
  /\ k \in DOMAIN jobs /\ k \in DOMAIN jobs'
  /\ jobs'[k].path = jobs[k].path /\ jobs'[k].born = jobs[k].born
  /\ jobs[k].status # "failed" /\ jobs'[k].status = "failed"

\* C21: the step in which a job ends failed leaves the ledger as it was: the
\* job's key is still absent, or still holds the entry it held, with the
\* same fingerprint, output path and retries.
C21_FailedJobLeavesLedger ==
  [][\A k \in 1..Len(jobs) :
       EndsFailed(k) =>
         /\ DOMAIN state' = DOMAIN state
         /\ jobs[k].path \in DOMAIN state =>
              state'[jobs[k].path] = state[jobs[k].path]
         /\ state' = state]_vars

\* A job failed on a changed file whose ledger entry still carries the
\* fingerprint of the earlier extraction.
C21_FailedWithPriorEntry ==
  \E k \in DOMAIN jobs :
    /\ jobs[k].status = "failed" /\ jobs[k].path \in DOMAIN state
    /\ state[jobs[k].path].hash # jobs[k].hash
    /\ jobs[k].attempts >= 1

\* C22: the ledger is never changed while a task of the current batch is
\* still running: its updates are applied after the whole batch returned.
C22_LedgerChangedAfterBatchOnly ==
  [][state' # state => ~\E k \in DOMAIN jobs' : Running(jobs'[k])]_vars

\* C23: every attempt ends within a fixed time, so a batch that waits for
\* its jobs always goes on, whether or not the extractor ever returns.
C23_BatchAlwaysAdvances == (pc = "awaitBatch") ~> (pc # "awaitBatch")

\* The entries the ledger gained or changed since the cycle started.
AddedInCycle ==
  {key \in DOMAIN state :
     key \notin DOMAIN hist.atStart \/ hist.atStart[key] # state[key]}

\* C24: when a cycle has completed (no error, no failed save, no task left
\* running), every entry the ledger gained during the cycle is in the ledger
\* file.
C24_LedgerSavedAtCycleEnd ==
  ( /\ pc = "sleep" /\ cycle >= 1 /\ jobs = <<>>
    /\ ~hist.threw /\ ~hist.saveFailed )
  => \A key \in AddedInCycle :
       /\ disk.kind = "json" /\ key \in DOMAIN disk.files
       /\ disk.files[key] = state[key]

\* The step in which the save after a batch fails.
SaveFails ==
  /\ pc = "awaitBatch" /\ ~isShuttingDown'
  /\ fsEvents' # fsEvents
  /\ <<pc, bi>>' # <<pc, bi>>

\* C25: a save that fails does not abort the cycle: nothing is thrown, the
\* in-memory ledger keeps its entries, and the loop goes to the next batch
\* if jobs are left and returns normally if not.
C25_SaveFailureSwallowed ==
  [][SaveFails =>
       /\ state' = state
       /\ exitCode' = exitCode /\ hist'.threw = hist.threw
       /\ IF bi + config.concurrentJobs < Len(jobs)
          THEN /\ pc' = "awaitBatch" /\ bi' = bi + config.concurrentJobs
               /\ batch' # {}
               /\ \A k \in batch' : jobs'[k].pc = "hash"
          ELSE pc' = "sleep" /\ batch' = {}]_vars

\* After a failed save the next batch of the cycle is running and the ledger
\* still holds an entry.
C25_NextBatchAfterFailedSave ==
  /\ hist.saveFailed /\ pc = "awaitBatch" /\ bi > 0
  /\ state # EmptyLedger
  /\ disk # JsonFile(STATE_VERSION, state)

\* Job k is the same job before and after the step.
SameJob(k) ==
  /\ k \in DOMAIN jobs /\ k \in DOMAIN jobs'
  /\ jobs'[k].path = jobs[k].path /\ jobs'[k].born = jobs[k].born

\* C26: the step in which an attempt of a job succeeds marks the job
\* completed and ends it: it starts no attempt, sleeps no delay and writes
\* nothing to the error tree; and a completed job does nothing more.
C26_SuccessEndsJob ==
  [][\A k \in 1..Len(jobs) :
       /\ ( SameJob(k) /\ jobs[k].pc = "extract" /\ jobs'[k].status = "completed" )
          => /\ jobs'[k].pc = "done"
             /\ jobs'[k].attempts = jobs[k].attempts
             /\ jobs'[k].sleeps = jobs[k].sleeps
             /\ jobs'[k].copies = 0 /\ jobs'[k].logs = 0
             /\ errorDir' = errorDir
       /\ ( SameJob(k) /\ jobs[k].status = "completed" )
          => jobs'[k] = jobs[k]]_vars

\* A job completed at its second attempt: one delay slept, nothing in the
\* error tree.
C26_CompletedAtSecondAttempt ==
  \E k \in DOMAIN jobs :
    /\ jobs[k].status = "completed" /\ jobs[k].pc = "done"
    /\ jobs[k].attempts = 2 /\ jobs[k].sleeps = 1
    /\ jobs[k].copies = 0
    /\ errorDir[jobs[k].path].content = Absent

\* C27: a job sleeps the retry delay only between two attempts: it never
\* sleeps after its last permitted attempt, and a job that failed all its
\* maxRetries attempts has slept maxRetries - 1 times.
C27_SleepsBetweenAttemptsOnly ==
  \A k \in DOMAIN jobs :
    /\ jobs[k].pc = "sleep" => jobs[k].attempt < config.maxRetries
    /\ jobs[k].sleeps = IF jobs[k].pc = "sleep" THEN jobs[k].attempts
                        ELSE IF jobs[k].attempts = 0 THEN 0
                        ELSE jobs[k].attempts - 1
    /\ (jobs[k].status = "failed" /\ config.maxRetries >= 1)
       => jobs[k].sleeps = config.maxRetries - 1

\* A job failed all its attempts and slept between them.
C27_FailedAfterSleeping ==
  \E k \in DOMAIN jobs :
    /\ jobs[k].status = "failed" /\ jobs[k].attempts = MaxRetriesCfg
    /\ jobs[k].sleeps = MaxRetriesCfg - 1 /\ jobs[k].sleeps >= 1

\* C28: a fetched page whose extraction fails is retried like a file: it is
\* given up for the cycle only after maxRetries extraction attempts.
C28_UrlExtractionRetried ==
  hist.urlItem.givenUp => hist.urlItem.attempts = config.maxRetries

\* C29: the list file is recorded as processed only when every URL it
\* holds has been resolved and extracted, that is when every one of them is
\* in the ledger.
C29_ListMarkedAfterEveryUrl ==
  [][( /\ pc = "markList" /\ state' # state
       /\ ui \in DOMAIN urlFiles /\ urlFiles[ui] \in DOMAIN state' )
     => \A i \in DOMAIN urls : urls[i].url \in DOMAIN state]_vars

\* C30: a failure inside one task of a batch stays inside it: while the
\* process lives, the batch loop leaves its wait only when every task of
\* the batch has ended, without an error thrown to the cycle, and then goes
\* to the save and the next batch.
C30_TaskFailureStaysInTask ==
  [][( /\ pc = "awaitBatch" /\ <<pc, bi>>' # <<pc, bi>>
       /\ exitCode' = -1 )
     => /\ \A k \in batch : jobs[k].pc = "done"
        /\ hist'.threw = hist.threw]_vars

\* C31: when layer 1 gets a 2xx answer whose body asks for client-side
\* rendering, layer 1 counts as failed: its body is never the result, and the
\* chain goes on to layer 2 (a request when it is enabled, a skip otherwise).
JsPageAtLayerOne(tr) == tr # <<>> /\ tr[1].attempted /\ tr[1].resp = "jsPage"
WentOnToLayerTwo(tr) == ~tr[1].ok /\ Len(tr) >= 2 /\ tr[2].layer = 2
C31_JsPageFallsThrough ==
  /\ (pc = "fetch" /\ JsPageAtLayerOne(fetchTrace)) =>
       (~fetchTrace[1].ok /\ layer >= 2)
  /\ JsPageAtLayerOne(fetchResult.trace) =>
       /\ WentOnToLayerTwo(fetchResult.trace)
       /\ ~(fetchResult.success /\ fetchResult.method = 1)
       /\ fetchResult.html # Body(1)
C31_RenderedByLayerTwo ==
  /\ JsPageAtLayerOne(fetchResult.trace)
  /\ fetchResult.success /\ fetchResult.method = 2 /\ fetchResult.html = Body(2)

\* C32: whenever fetchWithPlaywright has returned, with a page, a navigation
\* failure or a timeout, no browser it launched is left open.
PlaywrightInFlight == pc \in {"fetch", "exited"} /\ layer = 2
C32_BrowserClosedOnReturn ==
  /\ ~PlaywrightInFlight => browsers = 0
  /\ PlaywrightInFlight => browsers = 1
C32_ClosedAfterTimeout ==
  /\ Alive /\ ~PlaywrightInFlight /\ browsers = 0
  /\ \E i \in DOMAIN fetchResult.trace :
       fetchResult.trace[i].layer = 2 /\ fetchResult.trace[i].resp = "timeout"

\* C33: a failed fetchUrl carries the error 'All fetch methods failed' and an
\* empty content whatever layers failed and however; a successful one carries
\* the page and the method of the layer that succeeded.
C33_AggregateResult ==
  fetchResult.trace # <<>> =>
    IF fetchResult.success
    THEN LET w == fetchResult.trace[Len(fetchResult.trace)]
         IN /\ w.ok /\ w.attempted
            /\ fetchResult.method = w.layer
            /\ fetchResult.html = Body(w.layer)
            /\ fetchResult.error = ""
    ELSE /\ fetchResult.error = "All fetch methods failed"
         /\ fetchResult.html = ""
C33_FailedAfterTimeout ==
  /\ fetchResult.trace # <<>> /\ ~fetchResult.success
  /\ fetchResult.error = "All fetch methods failed"
  /\ LayerError(fetchResult.trace[Len(fetchResult.trace)].resp) = "Timeout exceeded"

\* C34: when the extraction of a file succeeds on attempt k, the ledger entry
\* written for the file carries retries = k - 1, the number of attempts that
\* failed before it.
C34_RetriesAreFailedAttempts ==
  [][\A k \in 1..Len(jobs) :
       ( SameJob(k) /\ jobs[k].pc = "extract" /\ jobs'[k].status = "completed" )
       => /\ jobs[k].path \in DOMAIN state'
          /\ state'[jobs[k].path].retries = jobs[k].attempt - 1
          /\ state'[jobs[k].path].retries = jobs[k].attempts - 1]_vars
\* A file extracted at its second attempt is in the ledger with one retry.
C34_OneRetryRecorded ==
  \E k \in DOMAIN jobs :
    /\ jobs[k].status = "completed" /\ jobs[k].attempt = 2
    /\ jobs[k].path \in DOMAIN state
    /\ state[jobs[k].path].retries = 1 /\ state[jobs[k].path].hash = jobs[k].hash

\* C35: the output path stored in the ledger entry of a file is the path
\* its successful extraction wrote to, with and without timestamp suffixes.
C35_LedgerPathIsWrittenPath ==
  [][\A k \in 1..Len(jobs) :
       ( SameJob(k) /\ jobs[k].pc = "extract" /\ jobs'[k].status = "completed" )
       => state'[jobs[k].path].outputPath = jobs[k].out]_vars

\* C36: the fingerprint stored with a completed file is the fingerprint of
\* the content its successful extraction read, also when the file is
\* modified while the cycle runs.
C36_FingerprintOfExtractedContent ==
  [][\A k \in 1..Len(jobs) :
       ( SameJob(k) /\ jobs[k].pc = "extract" /\ jobs'[k].status = "completed" )
       => state'[jobs[k].path].hash = calculateFileHash(jobs[k].path)]_vars

\* C37: within one cycle no two distinct work items are extracted to the
\* same output path.
C37_OutputPathsDistinct ==
  \A k1, k2 \in DOMAIN jobs :
    ( /\ k1 # k2 /\ jobs[k1].path # jobs[k2].path
      /\ jobs[k1].born = jobs[k2].born
      /\ jobs[k1].status = "completed" /\ jobs[k2].status = "completed" )
    => jobs[k1].out # jobs[k2].out

\* C38: a job starts pending with no retries; its status only moves from
\* pending to processing and from processing to completed or failed (a job
\* with no attempt to make goes through processing to failed before its first
\* await); a completed or failed job never changes; the retry counter never
\* exceeds maxRetries.
NotStarted(j) == j.pc \in {"new", "hash", "rejected"}
StatusMove(old, new) ==
  \/ new.status = old.status
  \/ old.status = "pending" /\ new.status = "processing"
  \/ old.status = "processing" /\ new.status \in {"completed", "failed"}
  \/ old.status = "pending" /\ new.status = "failed" /\ new.attempts = 0
C38_JobLifecycle ==
  [][\A k \in 1..Len(jobs') :
       /\ jobs'[k].retries \in 0..config.maxRetries
       /\ NotStarted(jobs'[k]) => (jobs'[k].status = "pending" /\ jobs'[k].retries = 0)
       /\ SameJob(k) =>
            /\ StatusMove(jobs[k], jobs'[k])
            /\ jobs[k].status \in {"completed", "failed"} => jobs'[k] = jobs[k]]_vars
\* A job failed with its retry counter at the limit beside a completed one.
C38_FailedAtTheLimit ==
  \E k1, k2 \in DOMAIN jobs :
    /\ jobs[k1].status = "failed" /\ jobs[k1].retries = config.maxRetries
    /\ config.maxRetries = MaxRetriesCfg
    /\ jobs[k2].status = "completed" /\ jobs[k2].retries = 1

\* C39: under every accepted configuration a job that ended failed and was
\* quarantined has made at least one extraction attempt.
C39_QuarantinedAfterAnAttempt ==
  \A k \in DOMAIN jobs :
    (jobs[k].status = "failed" /\ jobs[k].copies >= 1) => jobs[k].attempts >= 1

\* C40: a file is left out of the extraction candidates as a URL list only
\* when the discovery of the same cycle identified it as one and handed it to
\* URL resolution.
Listed(p, ufs) == \E i \in DOMAIN ufs : ufs[i] = p
C40_ExcludedOnlyIfResolved ==
  [][( /\ pc = "scan" /\ stage = "detect" /\ exitCode' = -1
       /\ <<pc, ei, stage>>' # <<pc, ei, stage>>
       /\ detectUrlsInTextFile(fs[entries[ei]]) )
     => Listed(entries[ei], urlFiles)]_vars
====
